---- MODULE Spec2Model ----
(***************************************************************************)
(* A model of two leaves of the toolkit:                                   *)
(*   - ElementPropertyFingerprint._featurize                               *)
(*       (deepchem/feat/material_featurizers/element_property_fingerprint) *)
(*   - _USPTOLoader.create_dataset                                         *)
(*       (deepchem/molnet/load_function/uspto_datasets)                    *)
(* SpecFeat runs featurize calls on one featurizer instance, SpecLoader    *)
(* runs create_dataset calls of a single process, SpecRace runs two        *)
(* loaders whose steps interleave on a shared file system.                 *)
(***************************************************************************)
EXTENDS Naturals, Sequences, FiniteSets

VARIABLES
  \* ---- ElementPropertyFingerprint ----
  data_source,        \* self.data_source
  ep_featurizer,      \* self.ep_featurizer: None or the engine object
  matminerInstalled,  \* whether "import matminer..." succeeds in this environment
  engineOut,          \* what the (deterministic) engine has computed so far
  fCall,              \* the last _featurize call: its input, path and outcome
  rets,               \* per composition, the vectors _featurize has returned
  nret,               \* per composition, how many calls returned (capped at 2)
  \* ---- _USPTOLoader ----
  loaders,            \* the loaders (processes) that run create_dataset
  files,              \* the file system: the set of <<directory, file name>> present
  pc,                 \* per loader, where it is inside create_dataset
  subset,             \* per loader, self.subset
  splitter,           \* per loader, self.splitter
  data_dir,           \* per loader, self.data_dir
  dataset_url,        \* per loader, the local dataset_url
  sawFile,            \* per loader, what os.path.exists returned in this call
  exChecks,           \* per loader, existence checks made in this call
  dlStarted,          \* per loader, downloads started in this call
  csvCalls,           \* per loader, CSVLoader invocations in this call
  result,             \* per loader, how the last call ended
  ncalls,             \* create_dataset calls begun so far
  dlCount,            \* per cache path, downloads started so far
  dlDone,             \* per loader, whether download_url returned in this call
  returnedFor,        \* cache paths some call has got past the download block for
  dlFailedEver        \* whether any download has failed so far

featVars == <<data_source, ep_featurizer, matminerInstalled, engineOut, fCall,
              rets, nret>>
loadVars == <<loaders, files, pc, subset, splitter, data_dir, dataset_url,
              sawFile, exChecks, dlStarted, csvCalls, result, ncalls, dlCount,
              dlDone, returnedFor, dlFailedEver>>
vars == <<data_source, ep_featurizer, matminerInstalled, engineOut, fCall,
          rets, nret, loaders, files, pc, subset, splitter, data_dir,
          dataset_url, sawFile, exChecks, dlStarted, csvCalls, result, ncalls,
          dlCount, dlDone, returnedFor, dlFailedEver>>

(***************************************************************************)
(* Bounds                                                                  *)
(***************************************************************************)
MaxWidth == 2     \* longest vector the engine produces
MaxCalls == 3     \* create_dataset calls in one run

(***************************************************************************)
(* ElementPropertyFingerprint                                              *)
(***************************************************************************)
None == "None"

\* self.ep_featurizer before the engine is built (Python's None)
NoEngine == [built |-> FALSE, preset |-> None]

Presets == {"matminer", "magpie", "deml"}

\* the compositions fed to the featurizer
Comps == {"Fe2O3", "NaCl"}

\* float64 values an engine slot can hold
Floats == {"nan", "inf", "-inf", "1.5"}

FloatMax == "1.7976931348623157e+308"
FloatMin == "-1.7976931348623157e+308"

Vectors == UNION {[1..n -> Floats] : n \in 1..MaxWidth}

\* the ways self.ep_featurizer.featurize(composition) can end:
\* it raises (ok = FALSE) or it returns a list of floats
EngineOutcomes == {[ok |-> FALSE, v |-> <<>>]} \cup {[ok |-> TRUE, v |-> w] : w \in Vectors}

\* ElementProperty.from_preset(self.data_source)
from_preset(ds) == [built |-> TRUE, preset |-> ds]

\* the engine the call works with after the "if self.ep_featurizer is None" block
EnsureEngineRebuild(ep, ds) == IF ep = NoEngine THEN from_preset(ds) ELSE from_preset("matminer")

EnsureEngine(ep, ds) == IF ep = NoEngine THEN from_preset(ds) ELSE ep

\* try: feats = engine.featurize(composition)  except: feats = []
GuardedFeatsZeros(o) == IF o.ok THEN o.v ELSE [i \in 1..MaxWidth |-> "0.0"]

GuardedFeats(o) == IF o.ok THEN o.v ELSE <<>>

\* np.array(feats): a list of floats becomes a float64 array of the same values
np_array(feats) == feats

\* np.nan_to_num on one float64 (default arguments)
nan_to_num1(x) ==
  CASE x = "nan" -> "0.0"
    [] x = "inf" -> FloatMax
    [] x = "-inf" -> FloatMin
    [] OTHER -> x

nan_to_num_skip(a) == a

nan_to_num(a) == [i \in DOMAIN a |-> nan_to_num1(a[i])]

ImportErrorMessage == <<"This", "class", "requires", "matminer", "to", "be", "installed.">>

NoCall == [comp |-> None, hadEngine |-> FALSE, attempted |-> FALSE, raised |-> "nocall",
           msg |-> <<>>, raw |-> {}, returned |-> FALSE, ret |-> <<>>]

\* how the call ends when the import raises ModuleNotFoundError
ImportFailureSwallowed(c) ==
  [comp |-> c, hadEngine |-> FALSE, attempted |-> TRUE, raised |-> "none",
   msg |-> <<>>, raw |-> {}, returned |-> TRUE, ret |-> nan_to_num(np_array(<<>>))]

ImportFailure(c) ==
  [comp |-> c, hadEngine |-> FALSE, attempted |-> TRUE, raised |-> "ImportError",
   msg |-> ImportErrorMessage, raw |-> {}, returned |-> FALSE, ret |-> <<>>]

\* the outcomes the engine can give for (engine, composition): the one it gave
\* before if it has been asked before (the engine is deterministic), any otherwise
EngineAnswers(eng, c) ==
  IF engineOut[<<eng.preset, c>>] = {} THEN EngineOutcomes ELSE engineOut[<<eng.preset, c>>]

FeatInit ==
  /\ data_source \in Presets
  /\ ep_featurizer = NoEngine
  /\ matminerInstalled \in BOOLEAN
  /\ engineOut = [k \in Presets \X Comps |-> {}]
  /\ fCall = NoCall
  /\ rets = [c \in Comps |-> {}]
  /\ nret = [c \in Comps |-> 0]

\* _featurize, the call ending in the ImportError
FeaturizeImportError(c) ==
  /\ ep_featurizer = NoEngine
  /\ ~matminerInstalled
  /\ fCall' = ImportFailure(c)
  /\ rets' = IF fCall'.returned THEN [rets EXCEPT ![c] = @ \cup {fCall'.ret}] ELSE rets
  /\ nret' = IF fCall'.returned /\ nret[c] < 2 THEN [nret EXCEPT ![c] = @ + 1] ELSE nret
  /\ UNCHANGED <<data_source, ep_featurizer, matminerInstalled, engineOut>>
  /\ UNCHANGED loadVars

\* _featurize, the call that gets to the engine
FeaturizeRun(c) ==
  /\ ep_featurizer # NoEngine \/ matminerInstalled
  /\ LET eng == EnsureEngine(ep_featurizer, data_source) IN
     \E o \in EngineAnswers(eng, c) :
       /\ ep_featurizer' = eng
       /\ engineOut' = [engineOut EXCEPT ![<<eng.preset, c>>] = {o}]
       /\ fCall' = [comp |-> c, hadEngine |-> ep_featurizer # NoEngine,
                    attempted |-> ep_featurizer = NoEngine, raised |-> "none",
                    msg |-> <<>>, raw |-> {o}, returned |-> TRUE,
                    ret |-> nan_to_num(np_array(GuardedFeats(o)))]
       /\ rets' = [rets EXCEPT ![c] = @ \cup {fCall'.ret}]
       /\ nret' = IF nret[c] < 2 THEN [nret EXCEPT ![c] = @ + 1] ELSE nret
  /\ UNCHANGED <<data_source, matminerInstalled>>
  /\ UNCHANGED loadVars

FeatNext ==
  \/ \E c \in Comps : FeaturizeImportError(c)
  \/ \E c \in Comps : FeaturizeRun(c)

(***************************************************************************)
(* _USPTOLoader                                                            *)
(***************************************************************************)
Procs == {1, 2}

Subsets == {"MIT", "STEREO", "50K", "FULL", "BOGUS"}

ValidSubsets == {"MIT", "STEREO", "50K", "FULL"}

Splitters == {"SpecifiedSplitter", "RandomSplitter", None}

Dirs == {"dirA", "dirB"}

\* a URL as its directory part and its last path component
UrlBase == "https://deepchemdata.s3.us-west-1.amazonaws.com/datasets"

USPTO_MIT_URL == [base |-> UrlBase, file |-> <<"USPTO_", "MIT", ".csv">>]

USPTO_STEREO_URL == [base |-> UrlBase, file |-> <<"USPTO_", "STEREO", ".csv">>]

USPTO_50K_URL == [base |-> UrlBase, file |-> <<"USPTO_", "50K", ".csv">>]

USPTO_FULL_URL == [base |-> UrlBase, file |-> <<"USPTO_", "FULL", ".csv">>]

\* dataset_url was never assigned
UnboundUrl == [base |-> None, file |-> <<>>]

\* self.name = 'USPTO_' + subset
LoaderName(s) == <<"USPTO_">> \o <<s>>

\* the chain of "if self.subset == ..." that assigns dataset_url
UrlOf(s) ==
  CASE s = "MIT" -> USPTO_MIT_URL
    [] s = "STEREO" -> USPTO_STEREO_URL
    [] s = "50K" -> USPTO_50K_URL
    [] s = "FULL" -> USPTO_FULL_URL
    [] OTHER -> UnboundUrl

\* the two raises of create_dataset, in the order the code reaches them
ValidateNoSubsetCheck(s, sp) ==
  IF s = "FULL" /\ sp = "SpecifiedSplitter" THEN "ValueError" ELSE "ok"

ValidateNoSplitCheck(s, sp) ==
  IF s \notin ValidSubsets THEN "ValueError" ELSE "ok"

Validate(s, sp) ==
  IF s \notin ValidSubsets THEN "ValueError"
  ELSE IF s = "FULL" /\ sp = "SpecifiedSplitter" THEN "ValueError"
  ELSE "ok"

\* dataset_file = os.path.join(self.data_dir, self.name + '.csv')
DatasetFile(d, s) == <<d, LoaderName(s) \o <<".csv">>>>

\* where download_url(url, dest_dir) writes: dest_dir joined with the URL's last component
DownloadTarget(url, d) == <<d, url.file>>

\* "if not os.path.exists(dataset_file)"
ShouldDownloadAlways(exists) == TRUE

ShouldDownload(exists) == ~exists

\* a failing download_url: nothing around the call catches it
OnDownloadFailureCaught == [pc |-> "load", result |-> "none"]

OnDownloadFailure == [pc |-> "idle", result |-> "DownloadError"]

CachePaths == {DatasetFile(d, s) : d \in Dirs, s \in ValidSubsets}

PathOf(p) == DatasetFile(data_dir[p], subset[p])

LoadInit(ls) ==
  /\ loaders = ls
  /\ files = {}
  /\ pc = [p \in Procs |-> "idle"]
  /\ subset = [p \in Procs |-> None]
  /\ splitter = [p \in Procs |-> None]
  /\ data_dir = [p \in Procs |-> None]
  /\ dataset_url = [p \in Procs |-> UnboundUrl]
  /\ sawFile = [p \in Procs |-> FALSE]
  /\ exChecks = [p \in Procs |-> 0]
  /\ dlStarted = [p \in Procs |-> 0]
  /\ csvCalls = [p \in Procs |-> 0]
  /\ dlDone = [p \in Procs |-> FALSE]
  /\ result = [p \in Procs |-> "none"]
  /\ ncalls = 0
  /\ dlCount = [c \in CachePaths |-> 0]
  /\ returnedFor = {}
  /\ dlFailedEver = FALSE

\* a loader is constructed and create_dataset runs up to the existence check
Begin(p, s, sp, d) ==
  /\ pc[p] = "idle"
  /\ ncalls < MaxCalls
  /\ ncalls' = ncalls + 1
  /\ subset' = [subset EXCEPT ![p] = s]
  /\ splitter' = [splitter EXCEPT ![p] = sp]
  /\ data_dir' = [data_dir EXCEPT ![p] = d]
  /\ dataset_url' = [dataset_url EXCEPT ![p] = UrlOf(s)]
  /\ sawFile' = [sawFile EXCEPT ![p] = FALSE]
  /\ exChecks' = [exChecks EXCEPT ![p] = 0]
  /\ dlStarted' = [dlStarted EXCEPT ![p] = 0]
  /\ csvCalls' = [csvCalls EXCEPT ![p] = 0]
  /\ dlDone' = [dlDone EXCEPT ![p] = FALSE]
  /\ IF Validate(s, sp) = "ok"
       THEN /\ pc' = [pc EXCEPT ![p] = "check"]
            /\ result' = [result EXCEPT ![p] = "none"]
       ELSE /\ pc' = [pc EXCEPT ![p] = "idle"]
            /\ result' = [result EXCEPT ![p] = Validate(s, sp)]
  /\ UNCHANGED <<loaders, files, dlCount, returnedFor, dlFailedEver>>
  /\ UNCHANGED featVars

\* os.path.exists(dataset_file) and the branch on it; a download starts here
CheckExists(p) ==
  /\ pc[p] = "check"
  /\ LET exists == PathOf(p) \in files IN
     /\ exChecks' = [exChecks EXCEPT ![p] = @ + 1]
     /\ sawFile' = [sawFile EXCEPT ![p] = exists]
     /\ IF ShouldDownload(exists)
          THEN /\ pc' = [pc EXCEPT ![p] = "download"]
               /\ dlStarted' = [dlStarted EXCEPT ![p] = @ + 1]
               /\ dlCount' = IF PathOf(p) \in CachePaths
                               THEN [dlCount EXCEPT ![PathOf(p)] = @ + 1]
                               ELSE dlCount
               /\ UNCHANGED returnedFor
          ELSE /\ pc' = [pc EXCEPT ![p] = "load"]
               /\ returnedFor' = returnedFor \cup {PathOf(p)}
               /\ UNCHANGED <<dlStarted, dlCount>>
  /\ UNCHANGED <<loaders, files, subset, splitter, data_dir, dataset_url, csvCalls,
                 dlDone, result, ncalls, dlFailedEver>>
  /\ UNCHANGED featVars

\* download_url returns: the file is on disk
DownloadOk(p) ==
  /\ pc[p] = "download"
  /\ files' = files \cup {DownloadTarget(dataset_url[p], data_dir[p])}
  /\ dlDone' = [dlDone EXCEPT ![p] = TRUE]
  /\ returnedFor' = returnedFor \cup {PathOf(p)}
  /\ pc' = [pc EXCEPT ![p] = "load"]
  /\ UNCHANGED <<loaders, subset, splitter, data_dir, dataset_url, sawFile, exChecks,
                 dlStarted, csvCalls, result, ncalls, dlCount, dlFailedEver>>
  /\ UNCHANGED featVars

\* download_url raises; a partly written file may stay behind
DownloadFail(p) ==
  /\ pc[p] = "download"
  /\ files' \in {files, files \cup {DownloadTarget(dataset_url[p], data_dir[p])}}
  /\ dlFailedEver' = TRUE
  /\ pc' = [pc EXCEPT ![p] = OnDownloadFailure.pc]
  /\ result' = [result EXCEPT ![p] = OnDownloadFailure.result]
  /\ UNCHANGED <<loaders, subset, splitter, data_dir, dataset_url, sawFile, exChecks,
                 dlStarted, csvCalls, dlDone, ncalls, dlCount, returnedFor>>
  /\ UNCHANGED featVars

\* CSVLoader(...).create_dataset(dataset_file, shard_size=8192)
LoadCsv(p) ==
  /\ pc[p] = "load"
  /\ csvCalls' = [csvCalls EXCEPT ![p] = @ + 1]
  /\ result' = [result EXCEPT ![p] = IF PathOf(p) \in files THEN "Dataset" ELSE "LoadError"]
  /\ pc' = [pc EXCEPT ![p] = "idle"]
  /\ UNCHANGED <<loaders, files, subset, splitter, data_dir, dataset_url, sawFile,
                 exChecks, dlStarted, dlDone, ncalls, dlCount, returnedFor, dlFailedEver>>
  /\ UNCHANGED featVars

LoadNext ==
  \/ \E p \in loaders, s \in Subsets, sp \in Splitters, d \in Dirs : Begin(p, s, sp, d)
  \/ \E p \in loaders : CheckExists(p)
  \/ \E p \in loaders : DownloadOk(p)
  \/ \E p \in loaders : DownloadFail(p)
  \/ \E p \in loaders : LoadCsv(p)

\* the loaders of the race are given valid configurations only
RaceSubsets == {"MIT", "FULL"}

RaceSplitters == {None}

RaceNext ==
  \/ \E p \in loaders, s \in RaceSubsets, sp \in RaceSplitters, d \in Dirs : Begin(p, s, sp, d)
  \/ \E p \in loaders : CheckExists(p)
  \/ \E p \in loaders : DownloadOk(p)
  \/ \E p \in loaders : DownloadFail(p)
  \/ \E p \in loaders : LoadCsv(p)

(***************************************************************************)
(* Specifications                                                          *)
(***************************************************************************)
\* one featurizer instance, any sequence of _featurize calls
InitFeat == FeatInit /\ LoadInit({})

SpecFeat == InitFeat /\ [][FeatNext]_vars

FeatIdle ==
  /\ data_source = "matminer"
  /\ ep_featurizer = NoEngine
  /\ matminerInstalled = TRUE
  /\ engineOut = [k \in Presets \X Comps |-> {}]
  /\ fCall = NoCall
  /\ rets = [c \in Comps |-> {}]
  /\ nret = [c \in Comps |-> 0]

\* create_dataset calls of a single process, one after the other
InitLoader == FeatIdle /\ LoadInit({1})

SpecLoader == InitLoader /\ [][LoadNext]_vars

\* two loaders whose create_dataset calls interleave
InitRace == FeatIdle /\ LoadInit(Procs)

SpecRace == InitRace /\ [][RaceNext]_vars

Spec == SpecFeat

(***************************************************************************)
(* Properties of ElementPropertyFingerprint._featurize (under SpecFeat)    *)
(***************************************************************************)

C5_EmptyOnEngineFailure ==
  \A o \in fCall.raw :
    /\ fCall.raised = "none"
    /\ fCall.returned
    /\ ~o.ok => Len(fCall.ret) = 0
    /\ o.ok => Len(fCall.ret) = Len(o.v)

\* the engine was already constructed, its computation failed and the call returned the empty vector
C5_Witness ==
  /\ fCall.hadEngine
  /\ fCall.returned
  /\ fCall.ret = <<>>
  /\ \E o \in fCall.raw : ~o.ok

\* C6: without matminer, a call on a featurizer whose engine is not yet
\* constructed ends with an ImportError whose message names matminer, and
\* no vector (empty or not) is returned.
C6_ImportErrorNamesMatminer ==
  (~matminerInstalled /\ fCall.raised # "nocall" /\ ~fCall.hadEngine) =>
    /\ fCall.raised = "ImportError"
    /\ \E i \in DOMAIN fCall.msg : fCall.msg[i] = "matminer"
    /\ ~fCall.returned
    /\ \A c \in Comps : rets[c] = {}

\* a call was made without matminer and ended with the ImportError
C6_Witness ==
  /\ ~matminerInstalled
  /\ fCall.attempted
  /\ fCall.raised = "ImportError"

\* C7: with a deterministic engine, all calls of one featurizer instance on
\* the same composition return the same vector: the call that constructs
\* the engine and the calls that reuse it.
C7_SameVectorOnRepeat == \A c \in Comps : Cardinality(rets[c]) <= 1

\* the second call on a composition, the first having constructed the engine, has returned
C7_Witness ==
  /\ fCall.returned
  /\ fCall.hadEngine
  /\ nret[fCall.comp] = 2
  /\ \A c \in Comps \ {fCall.comp} : nret[c] = 0

\* C9: the engine field is either not constructed or the engine of the
\* configured preset; once constructed no call replaces or resets it, and
\* no call attempts a construction while it is constructed.
C9_EngineConstructedOnce ==
  [][/\ ep_featurizer' \in {NoEngine, [built |-> TRUE, preset |-> data_source]}
     /\ ep_featurizer # NoEngine => (ep_featurizer' = ep_featurizer /\ ~fCall'.attempted)
     /\ fCall'.attempted => ep_featurizer = NoEngine]_vars

\* a call found the engine constructed and reused it
C9_Witness ==
  /\ ep_featurizer # NoEngine
  /\ fCall.hadEngine
  /\ ~fCall.attempted
  /\ nret[fCall.comp] = 1

(***************************************************************************)
(* Properties of _USPTOLoader.create_dataset                               *)
(***************************************************************************)

\* C1 (SpecLoader): in a single process, starting without cache files and with no
\* failed download, no cache file is downloaded more than once; once a call
\* has got past the download block for a cache file, that file was
\* downloaded exactly once and exists; a call that found the file made no
\* download and a call that did not find it made exactly one.
C1_OneDownloadPerCacheFile ==
  ~dlFailedEver =>
    /\ \A c \in CachePaths :
         /\ dlCount[c] <= 1
         /\ c \in returnedFor => (dlCount[c] = 1 /\ c \in files)
    /\ \A p \in loaders :
         (pc[p] = "load" \/ result[p] = "Dataset") =>
           dlStarted[p] = IF sawFile[p] THEN 0 ELSE 1

\* a later call found the cache file of an earlier call and returned without a download
C1_Witness ==
  /\ ~dlFailedEver
  /\ \E p \in loaders :
       /\ result[p] = "Dataset"
       /\ sawFile[p]
       /\ dlStarted[p] = 0
       /\ dlCount[<<data_dir[p], <<"USPTO_", subset[p], ".csv">>>>] = 1

\* C2 (SpecLoader): a call with a subset outside MIT, STEREO, 50K, FULL ends with
\* a ValueError, having started no download, made no existence check and
\* never invoked the CSV loader.
C2_InvalidSubsetRejected ==
  \A p \in loaders :
    (subset[p] \notin {None, "MIT", "STEREO", "50K", "FULL"}) =>
      /\ pc[p] = "idle"
      /\ result[p] = "ValueError"
      /\ dlStarted[p] = 0
      /\ exChecks[p] = 0
      /\ csvCalls[p] = 0

\* a call with subset BOGUS ended with the ValueError, with cache files around
C2_Witness ==
  /\ files # {}
  /\ \E p \in loaders : subset[p] = "BOGUS" /\ result[p] = "ValueError"

\* C3 (SpecLoader): a call with subset FULL and splitter 'SpecifiedSplitter' ends
\* with a ValueError before any existence check or download, whatever the
\* file system holds; with MIT, STEREO or 50K the same splitter is not rejected.
C3_FullSpecifiedRejected ==
  \A p \in loaders :
    /\ (subset[p] = "FULL" /\ splitter[p] = "SpecifiedSplitter") =>
         /\ pc[p] = "idle"
         /\ result[p] = "ValueError"
         /\ dlStarted[p] = 0
         /\ exChecks[p] = 0
    /\ (subset[p] \in {"MIT", "STEREO", "50K"} /\ splitter[p] = "SpecifiedSplitter") =>
         result[p] # "ValueError"

\* FULL with the SpecifiedSplitter was rejected while USPTO_FULL.csv was in its data directory
C3_Witness ==
  \E p \in loaders :
    /\ subset[p] = "FULL"
    /\ splitter[p] = "SpecifiedSplitter"
    /\ result[p] = "ValueError"
    /\ <<data_dir[p], <<"USPTO_", "FULL", ".csv">>>> \in files

\* C8 (SpecLoader): a call whose download failed ends there, with no dataset and
\* without the CSV loader invoked; the CSV loader is reached or invoked only
\* after the cache file was found or the download returned.
C8_DownloadFailurePropagates ==
  \A p \in loaders :
    /\ result[p] = "DownloadError" => (pc[p] = "idle" /\ csvCalls[p] = 0 /\ ~dlDone[p])
    /\ (pc[p] = "download" /\ ~dlDone[p]) => csvCalls[p] = 0
    /\ (pc[p] = "load" \/ csvCalls[p] > 0) => (sawFile[p] \/ dlDone[p])

\* a call found no cache file, started its download, and the download failed
C8_Witness ==
  \E p \in loaders :
    /\ result[p] = "DownloadError"
    /\ ~sawFile[p]
    /\ exChecks[p] = 1
    /\ dlStarted[p] = 1

\* C10 (SpecRace): whenever two loaders are inside download_url for the same
\* cache path, each of them passed its existence check with the file absent
\* and the file is still absent: the downloads overlap because both checks
\* ran before either download finished, and the path has been downloaded
\* more than once.
C10_OverlappingDownloads ==
  \A p, q \in loaders :
    (p # q /\ pc[p] = "download" /\ pc[q] = "download" /\ PathOf(p) = PathOf(q)) =>
      /\ ~sawFile[p] /\ ~sawFile[q]
      /\ PathOf(p) \notin files
      /\ dlCount[PathOf(p)] >= 2

\* two loaders are downloading the same cache file at once, no download having failed
C10_Witness ==
  /\ ~dlFailedEver
  /\ \E p, q \in loaders :
       /\ p # q
       /\ pc[p] = "download" /\ pc[q] = "download"
       /\ subset[p] = subset[q] /\ data_dir[p] = data_dir[q]
       /\ dlCount[<<data_dir[p], <<"USPTO_", subset[p], ".csv">>>>] = 2

====
